---- MODULE Spec2Model ----
(***************************************************************************)
(* ONCToolbox quality-control tests (src/src/ONCToolbox/qaqc.py).          *)
(*                                                                         *)
(* A time series (xr.DataArray with a 'time' coordinate) is a sequence of  *)
(* samples [time |-> t, value |-> v].  A value is NaN (the empty tuple) or *)
(* <<n>> for a number n.  Comparisons with NaN are FALSE, as in IEEE 754.  *)
(* Standard deviations are kept exact: a std is <<V, n>>, standing for     *)
(* sqrt(V)/n, and comparisons against it are done on squares.              *)
(***************************************************************************)
EXTENDS Integers, Sequences, FiniteSets

VARIABLES data,        \* the caller's value series (gross range, spike, flat line, rate of change)
          time_dtype,  \* the dtype of the time coordinate of the caller's value series
          latitude,    \* the caller's latitude series (location test)
          longitude,   \* the caller's longitude series (location test)
          json_response, \* the deployments the service replied with (get_deployments)
          op,          \* the function called, "none" before the call
          args,        \* the parameters of the call
          result       \* what the call returned: [raised, series]

vars == <<data, time_dtype, latitude, longitude, json_response, op, args, result>>

(***************************************************************************)
(* class FLAG                                                              *)
(***************************************************************************)
NOT_EVALUATED == 0
PASS == 1
HIGH_INTEREST == 2
SUSPECT == 3
FAIL == 4
MISSING_DATA == 9

(***************************************************************************)
(* Bounds of the model and the sets the inputs are drawn from.             *)
(***************************************************************************)
MaxLen == 3
MaxLocLen == 2

Values == {0, 1, 2}
LatValues == {45, -90, 91}
LonValues == {0, -180, 200}
SensorBounds == {0, 1, 2}
OperatorBounds == {1}
HalfWindows == {0, 1}
Multipliers == {1, 3}
RateMultipliers == {0, 1, 2}
AllowedStds == {-1, 0, 1}

(***************************************************************************)
(* Floating-point values: np.nan, None, and NaN-aware comparisons.         *)
(***************************************************************************)
NaN == << >>
None == << >>
Num(n) == <<n>>
IsNaN(x) == x = NaN
Abs(n) == IF n < 0 THEN -n ELSE n

\* float('inf') passed as a multiplier or as max_allowed_std: a number above
\* every finite parameter, told apart wherever a parameter is multiplied or
\* compared (inf * 0 is NaN, x < inf holds and x > inf fails for every number x)
Inf == 1000
IsInf(m) == m = Inf

\* np.abs(x) for a value x
NpAbs(x) == IF IsNaN(x) THEN NaN ELSE Num(Abs(x[1]))

\* x < c, x > c for a value x and a number c: FALSE when x is NaN
Lt(x, c) == ~IsNaN(x) /\ x[1] < c
Gt(x, c) == ~IsNaN(x) /\ x[1] > c

(***************************************************************************)
(* xarray helpers.                                                         *)
(***************************************************************************)
\* an array held in memory: the same sequence, its entries computed once
Array(a) == a \o << >>

\* xr.full_like(data, fill_value): one entry per sample of data
FullLike(series, fill) == [i \in DOMAIN series |-> fill]

\* flag.where(cond, other): keep flag where cond holds, put other elsewhere
Where(flag, cond, other) == [i \in DOMAIN flag |-> IF cond[i] THEN flag[i] ELSE other]

\* xr.where(cond, x, flag): x where cond holds, flag elsewhere
XrWhere(cond, x, flag) == [i \in DOMAIN flag |-> IF cond[i] THEN x ELSE flag[i]]

\* the flag DataArray returned: the flags on the time coordinate of series
Returned(series, flag) ==
    [raised |-> FALSE,
     series |-> [i \in DOMAIN flag |-> [time |-> series[i].time, flag |-> flag[i]]]]

\* an exception propagated to the caller
Raised == [raised |-> TRUE, series |-> << >>]

ValuesOf(series) == [i \in DOMAIN series |-> series[i].value]

\* the value of series at timestamp t (NaN when t is not on its coordinate)
AtTime(series, t) ==
    IF \E j \in DOMAIN series : series[j].time = t
    THEN (series[CHOOSE j \in DOMAIN series : series[j].time = t]).value
    ELSE NaN

(***************************************************************************)
(* location_test(latitude, longitude)                                      *)
(***************************************************************************)
\* binary operations align the two arrays on 'time' (inner join); the masks
\* are then applied to flag with join="exact", which raises when the joined
\* coordinate is not flag's own coordinate
LocationAligned(lat, lon) ==
    \A i \in DOMAIN lat : \E j \in DOMAIN lon : lon[j].time = lat[i].time

location_test(lat, lon) ==
    LET la == [i \in DOMAIN lat |-> lat[i].value]
        lo == [i \in DOMAIN lat |-> AtTime(lon, lat[i].time)]
        f0 == FullLike(lat, NOT_EVALUATED)
        f1 == Where(f0, [i \in DOMAIN lat |->
                           Lt(NpAbs(la[i]), 90) \/ Lt(NpAbs(lo[i]), 180)], FAIL)
        f2 == Where(f1, [i \in DOMAIN lat |->
                           Gt(NpAbs(la[i]), 90) /\ Gt(NpAbs(lo[i]), 180)], PASS)
        f3 == Where(f2, [i \in DOMAIN lat |->
                           ~IsNaN(la[i]) \/ ~IsNaN(lo[i])], MISSING_DATA)
    IN  IF LocationAligned(lat, lon) THEN Returned(lat, f3) ELSE Raised

(***************************************************************************)
(* gross_range_test(data, sensor_min, sensor_max, operator_min,            *)
(*                  operator_max)                                          *)
(***************************************************************************)
\* mutant: the missing-data override left out
GrossRangeMissing_Dropped(flag, v) == flag

\* line 61: flag.where(~np.isnan(data), FLAG.MISSING_DATA)
GrossRangeMissing(flag, v) ==
    Where(flag, [i \in DOMAIN flag |-> ~IsNaN(v[i])], MISSING_DATA)

gross_range_test(d, sensor_min, sensor_max, operator_min, operator_max) ==
    LET v  == ValuesOf(d)
        f0 == FullLike(d, NOT_EVALUATED)
        f1 == Where(f0, [i \in DOMAIN d |->
                           Lt(v[i], sensor_min) /\ Gt(v[i], sensor_max)], PASS)
        f2 == Where(f1, [i \in DOMAIN d |->
                           Gt(v[i], sensor_min) \/ Lt(v[i], sensor_max)], FAIL)
        f3 == IF operator_min # None /\ Num(sensor_min) # operator_min
              THEN Where(f2, [i \in DOMAIN d |->
                           Gt(v[i], operator_min[1]) \/ Lt(v[i], sensor_min)], SUSPECT)
              ELSE f2
        f4 == IF operator_max # None /\ Num(sensor_max) # operator_max
              THEN Where(f3, [i \in DOMAIN d |->
                           Lt(v[i], operator_max[1]) \/ Gt(v[i], sensor_max)], SUSPECT)
              ELSE f3
        f5 == GrossRangeMissing(f4, v)
    IN  Returned(d, f5)

(***************************************************************************)
(* Rolling windows and standard deviations.                                *)
(***************************************************************************)
\* data.sortby('time'): a stable sort on the time coordinate
Rank(series, i) ==
    1 + Cardinality({j \in DOMAIN series :
                        \/ series[j].time < series[i].time
                        \/ series[j].time = series[i].time /\ j < i})

\* mutant: the samples with a missing value dropped while sorting
SortByTime_DropMissing(series) ==
    LET kept == SelectSeq(series, LAMBDA smp : ~IsNaN(smp.value))
    IN  [k \in DOMAIN kept |-> kept[CHOOSE i \in DOMAIN kept : Rank(kept, i) = k]]

SortByTime(series) ==
    [k \in DOMAIN series |-> series[CHOOSE i \in DOMAIN series : Rank(series, i) = k]]

\* mutant: windows centred on the sample instead of ending at it
RollingConstruct_Centered(v, w) ==
    [i \in DOMAIN v |->
        [j \in 1..w |-> IF (i - (w \div 2) + j - 1) \in DOMAIN v
                        THEN v[i - (w \div 2) + j - 1] ELSE NaN]]

\* data.rolling({'time': w}).construct('window'): row i holds the w samples
\* ending at i, NaN where the window reaches before the first sample
RollingConstruct(v, w) ==
    [i \in DOMAIN v |-> [j \in 1..w |-> IF i - w + j >= 1 THEN v[i - w + j] ELSE NaN]]

\* the windows of data.rolling({'time': 2*half+1}, center=True): row i holds
\* the samples i-half .. i+half, NaN outside the series
RollingCentered(v, half) ==
    [i \in DOMAIN v |->
        [j \in 1..(2 * half + 1) |->
            IF (i - half + j - 1) \in DOMAIN v THEN v[i - half + j - 1] ELSE NaN]]

RECURSIVE SumOver(_, _)
SumOver(f, S) ==
    IF S = {} THEN 0
    ELSE LET j == CHOOSE k \in S : TRUE IN f[j] + SumOver(f, S \ {j})

\* a value that is not a whole number: <<n, 10>> is the float64 nearest to
\* n/10 (0.1, 0.2), which is not n/10 exactly
Tenth(n) == <<n, 10>>
IsTenth(x) == Len(x) = 2

\* the numbers k of copies of 0.1 (or of 0.2 = 2 * 0.1) whose float64 mean,
\* the sum taken left to right and divided by k, is not the value itself:
\* (0.1 + 0.1 + 0.1) / 3 = 0.10000000000000002.  Windows of fewer than 8
\* values, which numpy sums left to right
InexactMeanCounts == {3, 6, 7}

\* the std of a window whose mean is rounded away from its one value: each
\* deviation is one rounding error (about 1.4e-17 for 0.1), so the std is
\* above 0 and below every positive max_allowed_std; kept as sqrt(1)/1000
RoundingResidue == <<1, 1000>>

\* the NaN-skipping population standard deviation (ddof = 0) of a window:
\* <<V, n>> stands for sqrt(V)/n, with n the number of values present and
\* V = n*sum(x^2) - sum(x)^2; NaN when no value is present.  The std is the
\* float sqrt(mean((x - mean(x))^2)): over whole numbers the mean of a
\* constant window is exact and the std is 0; over tenths <<V, 10 * n>>
\* stands for sqrt(V)/(10 * n), and a constant window of a nonzero value
\* whose float mean is inexact has the std RoundingResidue, not 0
NanStd(window) ==
    LET P  == {j \in DOMAIN window : ~IsNaN(window[j])}
        n  == Cardinality(P)
        S1 == SumOver([j \in P |-> window[j][1]], P)
        S2 == SumOver([j \in P |-> window[j][1] * window[j][1]], P)
        V  == n * S2 - S1 * S1
    IN  IF n = 0 THEN NaN
        ELSE IF \A j \in P : ~IsTenth(window[j]) THEN <<V, n>>
        ELSE IF V = 0 /\ S1 # 0 /\ n \in InexactMeanCounts THEN RoundingResidue
        ELSE <<V, 10 * n>>

(***************************************************************************)
(* spike_test(data, spike_half_window, std_half_window, low_multiplier,    *)
(*            high_multiplier)                                             *)
(***************************************************************************)
\* lines 97-100: spkref = (spkref_left + spkref_right) / 2, kept doubled:
\* <<s>> stands for s/2
SpikeRef(v, spike_half_window) ==
    LET spkref_windows == RollingConstruct(v, spike_half_window * 2 + 1)
    IN  [i \in DOMAIN v |->
            LET spkref_left  == spkref_windows[i][1]
                spkref_right == spkref_windows[i][spike_half_window * 2 + 1]
            IN  IF IsNaN(spkref_left) \/ IsNaN(spkref_right) THEN NaN
                ELSE Num(spkref_left[1] + spkref_right[1])]

\* line 102: sd = data.rolling(..., center=True, min_periods=1).std()
SpikeStd(v, std_half_window) ==
    LET w == RollingCentered(v, std_half_window)
    IN  [i \in DOMAIN v |-> NanStd(w[i])]

\* lines 103-104: multiplier * sd; <<m, V, n>> stands for m*sqrt(V)/n
Threshold(multiplier, sd) ==
    [i \in DOMAIN sd |-> IF IsNaN(sd[i]) \/ (IsInf(multiplier) /\ sd[i][1] = 0) THEN NaN
                         ELSE <<multiplier, sd[i][1], sd[i][2]>>]

\* np.abs(data - spkref), kept doubled: <<D>> stands for D/2
AbsDev(v, spkref) ==
    [i \in DOMAIN v |-> IF IsNaN(v[i]) \/ IsNaN(spkref[i]) THEN NaN
                        ELSE Num(Abs(2 * v[i][1] - spkref[i][1]))]

\* dev < thr and dev > thr for dev = <<D>> (D/2) and thr = <<m, V, n>>
\* (m*sqrt(V)/n), decided on squares; FALSE when either is NaN
DevLt(dev, thr) ==
    /\ ~IsNaN(dev) /\ ~IsNaN(thr)
    /\ \/ IsInf(thr[1])
       \/ /\ thr[1] >= 0
          /\ dev[1] * dev[1] * thr[3] * thr[3] < 4 * thr[1] * thr[1] * thr[2]

DevGt(dev, thr) ==
    /\ ~IsNaN(dev) /\ ~IsNaN(thr)
    /\ ~IsInf(thr[1])
    /\ IF thr[1] < 0 THEN dev[1] > 0 \/ thr[2] > 0
       ELSE dev[1] * dev[1] * thr[3] * thr[3] > 4 * thr[1] * thr[1] * thr[2]

\* lines 106-111: the PASS / HIGH_INTEREST / FAIL classification
\* mutant: a deviation equal to threshold_low counted as below it
SpikeClassify_PassAtLow(dev, threshold_low, threshold_high) ==
    LET lt == [i \in DOMAIN dev |->
                 /\ ~IsNaN(dev[i]) /\ ~IsNaN(threshold_low[i])
                 /\ ~DevGt(dev[i], threshold_low[i])]
        gt == [i \in DOMAIN dev |-> DevGt(dev[i], threshold_high[i])]
        f0 == FullLike(dev, NOT_EVALUATED)
        f1 == Where(f0, [i \in DOMAIN dev |-> ~lt[i] /\ ~gt[i]], PASS)
        f2 == Where(f1, [i \in DOMAIN dev |-> lt[i] \/ gt[i]], HIGH_INTEREST)
        f3 == Where(f2, [i \in DOMAIN dev |-> ~gt[i]], FAIL)
    IN  f3

SpikeClassify(dev, threshold_low, threshold_high) ==
    LET lt == Array([i \in DOMAIN dev |-> DevLt(dev[i], threshold_low[i])])
        gt == Array([i \in DOMAIN dev |-> DevGt(dev[i], threshold_high[i])])
        f0 == FullLike(dev, NOT_EVALUATED)
        f1 == Where(f0, [i \in DOMAIN dev |-> ~lt[i] /\ ~gt[i]], PASS)
        f2 == Where(f1, [i \in DOMAIN dev |-> lt[i] \/ gt[i]], HIGH_INTEREST)
        f3 == Where(f2, [i \in DOMAIN dev |-> ~gt[i]], FAIL)
    IN  f3

\* lines 112-114: the missing-data and not-evaluated overrides
SpikeMissing(flag, v, spkref, threshold_low, threshold_high) ==
    LET f4 == Where(flag, [i \in DOMAIN flag |-> ~IsNaN(v[i])], MISSING_DATA)
        f5 == Where(f4, [i \in DOMAIN flag |-> ~IsNaN(spkref[i])], MISSING_DATA)
        f6 == Where(f5, [i \in DOMAIN flag |->
                           ~IsNaN(threshold_low[i]) \/ ~IsNaN(threshold_high[i])],
                    NOT_EVALUATED)
    IN  f6

spike_test(d, spike_half_window, std_half_window, low_multiplier, high_multiplier) ==
    LET sorted == SortByTime(d)
        v      == Array(ValuesOf(sorted))
        spkref == Array(SpikeRef(v, spike_half_window))
        sd     == Array(SpikeStd(v, std_half_window))
        threshold_low  == Array(Threshold(low_multiplier, sd))
        threshold_high == Array(Threshold(high_multiplier, sd))
        dev == Array(AbsDev(v, spkref))
        f3 == SpikeClassify(dev, threshold_low, threshold_high)
        f6 == SpikeMissing(f3, v, spkref, threshold_low, threshold_high)
    IN  \* lines 97, 102: rolling() raises ValueError for a window <= 0
        IF spike_half_window * 2 + 1 <= 0 \/ std_half_window * 2 + 1 <= 0 THEN Raised
        ELSE Returned(sorted, f6)

(***************************************************************************)
(* flat_line_test(data, max_allowed_std, fail_half_window_size,            *)
(*                suspect_half_window_size)                                *)
(***************************************************************************)
\* lines 145-146, 149-150: data.rolling({'time': half*2+1}).construct('window')
\* .std(dim='window'), NaN-skipping
FlatLineStd(v, half_window_size) ==
    LET w == RollingConstruct(v, half_window_size * 2 + 1)
    IN  [i \in DOMAIN v |-> NanStd(w[i])]

\* std <= max_allowed_std for std = <<V, n>> (sqrt(V)/n); FALSE when std is NaN
StdLe(std, max_allowed_std) ==
    /\ ~IsNaN(std)
    /\ \/ IsInf(max_allowed_std)
       \/ /\ max_allowed_std >= 0
          /\ std[1] <= max_allowed_std * max_allowed_std * std[2] * std[2]

\* mutant: the SUSPECT write made after the FAIL write
FlatLineClassify_SuspectLast(wfstd, wsstd, max_allowed_std) ==
    LET f0 == FullLike(wfstd, NOT_EVALUATED)
        f1 == XrWhere([i \in DOMAIN wfstd |-> StdLe(wfstd[i], max_allowed_std)], FAIL, f0)
        f2 == XrWhere([i \in DOMAIN wfstd |-> StdLe(wsstd[i], max_allowed_std)], SUSPECT, f1)
        f3 == XrWhere([i \in DOMAIN wfstd |-> f2[i] = NOT_EVALUATED], PASS, f2)
    IN  f3

\* lines 152-155: SUSPECT, then FAIL, then PASS on what is still NOT_EVALUATED
FlatLineClassify(wfstd, wsstd, max_allowed_std) ==
    LET f0 == FullLike(wfstd, NOT_EVALUATED)
        f1 == XrWhere([i \in DOMAIN wfstd |-> StdLe(wsstd[i], max_allowed_std)], SUSPECT, f0)
        f2 == XrWhere([i \in DOMAIN wfstd |-> StdLe(wfstd[i], max_allowed_std)], FAIL, f1)
        f3 == XrWhere([i \in DOMAIN wfstd |-> f2[i] = NOT_EVALUATED], PASS, f2)
    IN  f3

flat_line_test(d, max_allowed_std, fail_half_window_size, suspect_half_window_size) ==
    LET v     == Array(ValuesOf(d))
        wfstd == Array(FlatLineStd(v, fail_half_window_size))
        wsstd == Array(FlatLineStd(v, suspect_half_window_size))
        f3    == FlatLineClassify(wfstd, wsstd, max_allowed_std)
    IN  \* lines 145, 149: rolling() raises ValueError for a window <= 0
        IF fail_half_window_size * 2 + 1 <= 0 \/ suspect_half_window_size * 2 + 1 <= 0
        THEN Raised
        ELSE Returned(d, f3)

(***************************************************************************)
(* rate_of_change_test(data, std_multiplier)                               *)
(***************************************************************************)
\* lines 172-175: rate = data.diff('time') / elapsed seconds, one entry per
\* consecutive pair, in the order the caller passed the samples.  A rate is
\* <<dv, dt>>, standing for dv/dt (dt = 0, dv # 0: infinite); 0/0 is NaN
RateDiff(d) ==
    [i \in 1..(Len(d) - 1) |->
        LET a  == d[i].value
            b  == d[i + 1].value
            dt == d[i + 1].time - d[i].time
        IN  IF IsNaN(a) \/ IsNaN(b) \/ (dt = 0 /\ b[1] = a[1]) THEN NaN
            ELSE <<b[1] - a[1], dt>>]

\* line 171: data['time'] = data.time.astype('datetime64[ns]') assigns the
\* converted coordinate on the object the caller passed
AsType(dtype, target) == target

\* line 176: rate = np.concatenate([np.array([np.nan]), rate])
RateConcat(rate) == <<NaN>> \o rate

RECURSIVE ProdOver(_, _)
ProdOver(f, S) ==
    IF S = {} THEN 1
    ELSE LET j == CHOOSE k \in S : TRUE IN f[j] * ProdOver(f, S \ {j})

\* the population standard deviation of the rates at the positions P (all of
\* them finite): with L the product of their denominators and R[i] = rate[i]*L,
\* <<V, k, L>> stands for sqrt(V)/(k*|L|), V = k*sum(R^2) - sum(R)^2
StdAt(rate, P) ==
    LET k  == Cardinality(P)
        L  == ProdOver([i \in P |-> rate[i][2]], P)
        R  == [i \in P |-> (rate[i][1] * L) \div rate[i][2]]
        S1 == SumOver(R, P)
        S2 == SumOver([i \in P |-> R[i] * R[i]], P)
    IN  <<k * S2 - S1 * S1, k, L>>

\* mutant: the std taken over the defined entries only, as nanstd would
NpStd_SkipNaN(rate) ==
    StdAt(rate, {i \in DOMAIN rate : ~IsNaN(rate[i]) /\ rate[i][2] # 0})

\* rate.std() of a numpy array: NaN as soon as one entry is NaN (numpy's std
\* does not skip NaN) or is infinite
NpStd(rate) ==
    IF \E i \in DOMAIN rate : IsNaN(rate[i]) \/ rate[i][2] = 0 THEN NaN
    ELSE StdAt(rate, DOMAIN rate)

\* np.abs(r) > std_multiplier * std for r = <<dv, dt>> and std = <<V, k, L>>:
\* |dv/dt| > m*sqrt(V)/(k*|L|), decided on squares; FALSE when either is NaN
RateGt(r, std_multiplier, std) ==
    /\ ~IsNaN(r) /\ ~IsNaN(std)
    /\ ~IsInf(std_multiplier)
    /\ IF r[2] = 0 THEN TRUE
       ELSE LET R == Abs((r[1] * std[3]) \div r[2])
            IN  IF std_multiplier < 0 THEN R > 0 \/ std[1] > 0
                ELSE R * R * std[2] * std[2] > std_multiplier * std_multiplier * std[1]

\* mutant: only the value checked, the override on an undefined rate left out
RateMissing_ValueOnly(flag, v, rate) ==
    Where(flag, [i \in DOMAIN flag |-> ~IsNaN(v[i])], MISSING_DATA)

\* lines 180-181: MISSING_DATA where the value or the rate is NaN
RateMissing(flag, v, rate) ==
    LET f3 == Where(flag, [i \in DOMAIN flag |-> ~IsNaN(v[i])], MISSING_DATA)
        f4 == Where(f3, [i \in DOMAIN flag |-> ~IsNaN(rate[i])], MISSING_DATA)
    IN  f4

rate_of_change_test(d, std_multiplier) ==
    LET v    == ValuesOf(d)
        rate == RateConcat(RateDiff(d))
        std  == NpStd(rate)
        f0 == FullLike(d, NOT_EVALUATED)
        f1 == Where(f0, [i \in DOMAIN d |-> RateGt(rate[i], std_multiplier, std)], PASS)
        f2 == Where(f1, [i \in DOMAIN d |-> ~RateGt(rate[i], std_multiplier, std)],
                    HIGH_INTEREST)
        f4 == RateMissing(f2, v, rate)
    IN  \* the masks are plain numpy arrays: their shape must be flag's shape
        IF Len(rate) # Len(d) THEN Raised ELSE Returned(d, f4)

(***************************************************************************)
(* split_periods(da_time, min_gap)  (src/src/ONCToolbox/utils/core.py)     *)
(*                                                                         *)
(* Timestamps are whole seconds.  A period is a record [begin_datetime,    *)
(* end_datetime]; a call returns [raised, periods].                        *)
(***************************************************************************)
MaxCableLen == 4

Gaps == {10, 100}
MinGaps == {5, 10, 60}
Buffers == {0, 25, 50}
CableValues == {0, 1}
ProfileDirections == {"all", "up", "down"}
ProfileStds == {0}
StopStds == {0, 1}

\* line 103: timedelta(seconds=30)
LookBack == 30

ReturnedPeriods(periods) == [raised |-> FALSE, periods |-> periods]
RaisedPeriods == [raised |-> TRUE, periods |-> << >>]

TimesOf(series) == [i \in DOMAIN series |-> series[i].time]

MinOf(S) == CHOOSE x \in S : \A y \in S : x <= y
MaxOf(S) == CHOOSE x \in S : \A y \in S : x >= y

\* line 90: the timestamps whose difference to the previous (sorted) timestamp
\* is greater than min_gap, in time order
GapStarts(t, min_gap) ==
    LET after == SelectSeq([i \in 1..(Len(t) - 1) |-> i + 1],
                           LAMBDA i : t[i] - t[i - 1] > min_gap)
    IN  [k \in DOMAIN after |-> t[after[k]]]

\* line 102: dts.index(dt), the first position of dt in dts
IndexOf(dts, dt) ==
    CHOOSE j \in DOMAIN dts : dts[j] = dt /\ \A k \in 1..(j - 1) : dts[k] # dt

\* mutant: the next start itself taken as the stop of a period
SliceStop_NoLookBack(dts, k) ==
    IF dts[k] = dts[Len(dts)] THEN None
    ELSE Num(dts[IndexOf(dts, dts[k]) + 1])

\* lines 98-103: stop is None for the last start, else the next start minus
\* 30 seconds
SliceStop(dts, k) ==
    IF dts[k] = dts[Len(dts)] THEN None
    ELSE Num(dts[IndexOf(dts, dts[k]) + 1] - LookBack)

\* mutant: the slice taken from the first sample, not from start
SelSlice_NoStart(t, start, stop) ==
    {i \in DOMAIN t : stop = None \/ t[i] <= stop[1]}

\* line 104: da_time.sel(time=slice(start, stop)) on the sorted coordinate,
\* both ends included: the positions selected
SelSlice(t, start, stop) ==
    {i \in DOMAIN t : t[i] >= start /\ (stop = None \/ t[i] <= stop[1])}

split_periods(da_time, min_gap) ==
    LET sorted == SortByTime(da_time)
        t      == Array(TimesOf(sorted))
        gaps   == Array(GapStarts(t, min_gap))
        dts    == IF t[1] # gaps[1] THEN <<t[1]>> \o gaps ELSE gaps
        sel(k) == SelSlice(t, dts[k], SliceStop(dts, k))
        kept   == SelectSeq([k \in DOMAIN dts |-> k], LAMBDA k : sel(k) # {})
        periods == Array([j \in DOMAIN kept |->
                            [begin_datetime |-> MinOf({t[i] : i \in sel(kept[j])}),
                             end_datetime   |-> MaxOf({t[i] : i \in sel(kept[j])})]])
        whole  == [begin_datetime |-> MinOf({t[i] : i \in DOMAIN t}),
                   end_datetime   |-> MaxOf({t[i] : i \in DOMAIN t})]
    IN  \* line 92: da_time.time.min() raises on an empty series, dts[0] raises
        \* IndexError when no difference is greater than min_gap
        IF Len(t) = 0 \/ Len(gaps) = 0 THEN RaisedPeriods
        ELSE IF Len(periods) = 0 THEN ReturnedPeriods(<<whole>>)
        ELSE ReturnedPeriods(periods)

(***************************************************************************)
(* identify_profiles and identify_stops                                    *)
(* (src/src/ONCToolbox/utils/profilers.py)                                 *)
(***************************************************************************)
\* the half windows flat_line_test is left to default to (qaqc.py 130-131)
DefaultFailHalfWindow == 5
DefaultSuspectHalfWindow == 3

\* line 45: split_periods(stop_state, min_gap = 60)
StopMinGap == 60

\* mutant: the samples that are not PASS kept as the profiling state
ProfilingState_NotPass(flag_cl) == SelectSeq(flag_cl, LAMBDA smp : smp.flag # PASS)

\* lines 14, 44: flag_cl.where(cond, drop=True), the samples of the flag
\* series whose flag is (is not) PASS
ProfilingState(flag_cl) == SelectSeq(flag_cl, LAMBDA smp : smp.flag = PASS)
StopState(flag_cl) == SelectSeq(flag_cl, LAMBDA smp : smp.flag # PASS)

\* lines 19, 49: cable_length.sel(time=slice(begin, end)), both ends included
SelTime(cable_length, begin, end) ==
    SelectSeq(cable_length, LAMBDA smp : smp.time >= begin /\ smp.time <= end)

\* mutant: 'down' also when the two values are equal
ProfileDirection_DownOnEqual(start_cl, stop_cl) ==
    IF ~IsNaN(start_cl) /\ ~IsNaN(stop_cl) /\ start_cl[1] - stop_cl[1] >= 0
    THEN "down" ELSE "up"

\* lines 22-25: 'down' if _start - _stop > 0 else 'up' (a NaN difference is
\* not > 0)
ProfileDirection(start_cl, stop_cl) ==
    IF ~IsNaN(start_cl) /\ ~IsNaN(stop_cl) /\ start_cl[1] - stop_cl[1] > 0
    THEN "down" ELSE "up"

\* mutant: the buffer applied twice
Expand_Twice(period, buffer) ==
    [period EXCEPT !.begin_datetime = @ - 2 * buffer,
                   !.end_datetime = @ + 2 * buffer]

\* lines 28-29, 51-52: begin - buffer seconds, end + buffer seconds
Expand(period, buffer) ==
    [period EXCEPT !.begin_datetime = @ - buffer,
                   !.end_datetime = @ + buffer]

identify_profiles(cable_length, profile_direction, buffer, max_allowed_std, min_gap) ==
    LET flag_cl  == flat_line_test(cable_length, max_allowed_std,
                                   DefaultFailHalfWindow, DefaultSuspectHalfWindow)
        profiles == split_periods(ProfilingState(Array(flag_cl.series)), min_gap)
        assigned_profiles ==
            [j \in DOMAIN profiles.periods |->
                LET profile  == profiles.periods[j]
                    cl       == SelTime(cable_length, profile.begin_datetime,
                                        profile.end_datetime)
                    start_cl == AtTime(cl, MinOf({cl[i].time : i \in DOMAIN cl}))
                    stop_cl  == AtTime(cl, MaxOf({cl[i].time : i \in DOMAIN cl}))
                IN  Expand([begin_datetime |-> profile.begin_datetime,
                            end_datetime |-> profile.end_datetime,
                            direction |-> ProfileDirection(start_cl, stop_cl)],
                           buffer)]
    IN  IF profiles.raised THEN RaisedPeriods
        ELSE IF profile_direction = "all" THEN ReturnedPeriods(assigned_profiles)
        ELSE ReturnedPeriods(SelectSeq(assigned_profiles,
                                       LAMBDA p : p.direction = profile_direction))

\* the k-th smallest of the numbers of the sequence w
Kth(w, k) ==
    CHOOSE x \in {w[i] : i \in DOMAIN w} :
        /\ Cardinality({i \in DOMAIN w : w[i] < x}) < k
        /\ k <= Cardinality({i \in DOMAIN w : w[i] <= x})

\* _cl.median(), NaN-skipping, kept doubled: <<m>> stands for m/2; NaN when
\* no value is present
Median(cl) ==
    LET present == SelectSeq(ValuesOf(cl), LAMBDA x : ~IsNaN(x))
        w == [i \in DOMAIN present |-> present[i][1]]
        n == Len(w)
    IN  IF n = 0 THEN NaN
        ELSE Num(Kth(w, (n + 1) \div 2) + Kth(w, (n + 2) \div 2))

\* mutant: the median rounded down
CeilOf_Floor(median) == median[1] \div 2

\* line 50: int(np.ceil(median)) for median = <<m>> (m/2)
CeilOf(median) == (median[1] + 1) \div 2

identify_stops(cable_length, buffer, max_allowed_std) ==
    LET flag_cl == flat_line_test(cable_length, max_allowed_std,
                                  DefaultFailHalfWindow, DefaultSuspectHalfWindow)
        stops   == split_periods(StopState(Array(flag_cl.series)), StopMinGap)
        medians == [j \in DOMAIN stops.periods |->
                      Median(SelTime(cable_length, stops.periods[j].begin_datetime,
                                     stops.periods[j].end_datetime))]
        assigned_stops ==
            [j \in DOMAIN stops.periods |->
                Expand([begin_datetime |-> stops.periods[j].begin_datetime,
                        end_datetime |-> stops.periods[j].end_datetime,
                        cable_length_out |-> CeilOf(medians[j])],
                       buffer)]
    IN  IF stops.raised THEN RaisedPeriods
        \* line 50: int() of a NaN median raises ValueError
        ELSE IF \E j \in DOMAIN medians : IsNaN(medians[j]) THEN RaisedPeriods
        ELSE ReturnedPeriods(assigned_stops)

(***************************************************************************)
(* ONCToolbox.get_deployments(location_code, begin_datetime, end_datetime)  *)
(* (src/src/ONCToolbox/core.py).  Datetimes are whole numbers; a deployment *)
(* of the reply is [deviceCategoryCode, deviceCode, begin, end], end being  *)
(* None while the deployment is open.                                       *)
(***************************************************************************)
\* line 141: datetime.now(timezone.utc), later than every begin of the reply
\* (the reply is asked for with dateTo = now, line 126)
UtcNow == 3

\* the decimal digits of n, as str(n) writes them
RECURSIVE Str(_)
Str(n) == IF n < 10 THEN <<n>> ELSE Str(n \div 10) \o <<n % 10>>

\* str.zfill(width): zeros on the left up to width characters
ZFill(digits, width) ==
    IF Len(digits) >= width THEN digits
    ELSE [i \in 1..(width - Len(digits)) |-> 0] \o digits

\* line 139: dnumstr = 'D' + str(dnum).zfill(5)
DNumStr(dnum) == [letter |-> "D", digits |-> ZFill(Str(dnum), 5)]

\* lines 140-146: the dep_info of a deployment of the reply, the end of an
\* open deployment being now
DepInfo(dep) ==
    [device_code    |-> dep.deviceCode,
     begin_datetime |-> dep.begin,
     end_datetime   |-> IF dep.end = None THEN UtcNow ELSE dep.end[1]]

\* lines 132-148: all_deployments, per device category the deployments in
\* the order of the reply, the k-th of a category under the key of number k
AllDeployments(response) ==
    [dcc \in {response[i].deviceCategoryCode : i \in DOMAIN response} |->
        LET deps == SelectSeq(response, LAMBDA dep : dep.deviceCategoryCode = dcc)
        IN  [k \in DOMAIN deps |-> [dnum |-> DNumStr(k), info |-> DepInfo(deps[k])]]]

\* mutant: only the deployments that hold an end of the request
Overlaps_RequestEndsOnly(dbdt, dedt, begin_datetime, end_datetime) ==
    \/ dbdt <= begin_datetime /\ begin_datetime <= dedt
    \/ dbdt <= end_datetime /\ end_datetime <= dedt

\* lines 156-157: the condition under which a deployment is kept
Overlaps(dbdt, dedt, begin_datetime, end_datetime) ==
    \/ dbdt <= begin_datetime /\ begin_datetime <= dedt
    \/ dbdt <= end_datetime /\ end_datetime <= dedt
    \/ begin_datetime <= dbdt /\ dbdt <= end_datetime
    \/ begin_datetime <= dedt /\ dedt <= end_datetime

\* lines 150-162: requested_deployments, the categories with a kept
\* deployment, each kept deployment under the key it has in all_deployments
get_deployments(response, begin_datetime, end_datetime) ==
    LET all_deployments == AllDeployments(response)
        kept(dcc) == SelectSeq(all_deployments[dcc],
                               LAMBDA d : Overlaps(d.info.begin_datetime,
                                                   d.info.end_datetime,
                                                   begin_datetime, end_datetime))
    IN  [raised |-> FALSE,
         deployments |-> [dcc \in {c \in DOMAIN all_deployments : kept(c) # << >>}
                             |-> kept(dcc)]]

(***************************************************************************)
(* The caller's inputs.                                                    *)
(***************************************************************************)
\* the orders in which n distinct timestamps 0 .. n-1 can be passed
TimeOrders(n) == {t \in [1..n -> 0..(n - 1)] : \A i, j \in 1..n : i # j => t[i] # t[j]}

\* the values a sample can take: NaN or a number of vals
Samples(vals) == {NaN} \cup {Num(y) : y \in vals}

\* the series with timestamps t and values x
Series(t, x) == [i \in DOMAIN t |-> [time |-> t[i], value |-> x[i]]]

NoResult == [raised |-> FALSE, series |-> << >>]

\* the series the caller holds: a value series, or a latitude and a longitude
\* series on the same timestamps
CallerSeries ==
    \/ \E n \in 1..MaxLen : \E t \in TimeOrders(n) :
         \E x \in [1..n -> Samples(Values)] :
            /\ data = Series(t, x)
            /\ latitude = << >>
            /\ longitude = << >>
    \/ \E n \in 1..MaxLocLen : \E t \in TimeOrders(n) :
         \E la \in [1..n -> Samples(LatValues)], lo \in [1..n -> Samples(LonValues)] :
            /\ data = << >>
            /\ latitude = Series(t, la)
            /\ longitude = Series(t, lo)

\* the dtypes the time coordinate of the caller's series can have
TimeDtypes == {"datetime64[ns]", "int64"}

Init ==
    /\ op = "none"
    /\ args = << >>
    /\ result = NoResult
    /\ time_dtype = "datetime64[ns]"
    /\ json_response = << >>
    /\ CallerSeries

(***************************************************************************)
(* The calls.                                                              *)
(***************************************************************************)
LocationTest ==
    /\ op = "none" /\ latitude # << >>
    /\ op' = "location_test"
    /\ args' = << >>
    /\ result' = location_test(latitude, longitude)
    /\ UNCHANGED <<data, time_dtype, latitude, longitude, json_response>>

GrossRangeTest ==
    /\ op = "none" /\ data # << >>
    /\ \E sensor_min \in SensorBounds, sensor_max \in SensorBounds,
          operator_min \in {None} \cup {Num(b) : b \in OperatorBounds},
          operator_max \in {None} \cup {Num(b) : b \in OperatorBounds} :
        /\ op' = "gross_range_test"
        /\ args' = [sensor_min |-> sensor_min, sensor_max |-> sensor_max,
                    operator_min |-> operator_min, operator_max |-> operator_max]
        /\ result' = gross_range_test(data, sensor_min, sensor_max,
                                      operator_min, operator_max)
    /\ UNCHANGED <<data, time_dtype, latitude, longitude, json_response>>

SpikeTest ==
    /\ op = "none" /\ data # << >>
    /\ \E spike_half_window \in HalfWindows, std_half_window \in HalfWindows,
          low_multiplier \in Multipliers, high_multiplier \in Multipliers :
        /\ op' = "spike_test"
        /\ args' = [spike_half_window |-> spike_half_window,
                    std_half_window |-> std_half_window,
                    low_multiplier |-> low_multiplier,
                    high_multiplier |-> high_multiplier]
        /\ result' = spike_test(data, spike_half_window, std_half_window,
                                low_multiplier, high_multiplier)
    /\ UNCHANGED <<data, time_dtype, latitude, longitude, json_response>>

FlatLineTest ==
    /\ op = "none" /\ data # << >>
    /\ \E max_allowed_std \in AllowedStds, fail_half_window_size \in HalfWindows,
          suspect_half_window_size \in HalfWindows :
        /\ op' = "flat_line_test"
        /\ args' = [max_allowed_std |-> max_allowed_std,
                    fail_half_window_size |-> fail_half_window_size,
                    suspect_half_window_size |-> suspect_half_window_size]
        /\ result' = flat_line_test(data, max_allowed_std, fail_half_window_size,
                                    suspect_half_window_size)
    /\ UNCHANGED <<data, time_dtype, latitude, longitude, json_response>>

RateOfChangeTest ==
    /\ op = "none" /\ data # << >>
    /\ \E std_multiplier \in RateMultipliers :
        /\ op' = "rate_of_change_test"
        /\ args' = [std_multiplier |-> std_multiplier]
        /\ result' = rate_of_change_test(data, std_multiplier)
    /\ time_dtype' = AsType(time_dtype, "datetime64[ns]")
    /\ UNCHANGED <<data, latitude, longitude, json_response>>

Next ==
    \/ LocationTest
    \/ GrossRangeTest
    \/ SpikeTest
    \/ FlatLineTest
    \/ RateOfChangeTest

Spec == Init /\ [][Next]_vars

(***************************************************************************)
(* The calls of a caller that checks nothing first: the time coordinate    *)
(* of the series has any dtype, a half window can be negative, a           *)
(* multiplier or max_allowed_std can be float('inf').                      *)
(***************************************************************************)
AnyHalfWindows == HalfWindows \cup {-1}
AnyMultipliers == Multipliers \cup {Inf}
AnyRateMultipliers == RateMultipliers \cup {Inf}
AnyAllowedStds == AllowedStds \cup {Inf}

\* the timestamps first, first + 1, ..., n of them
TimesFrom(first, n) == [i \in 1..n |-> first + i - 1]

\* a latitude and a longitude series that are not on the same timestamps:
\* the longitude has another length, or starts one timestamp later
MismatchedLocation ==
    \E n \in 1..MaxLocLen, m \in 1..MaxLocLen, first \in {0, 1} :
       \E la \in [1..n -> Samples(LatValues)], lo \in [1..m -> Samples(LonValues)] :
          /\ n # m \/ first # 0
          /\ data = << >>
          /\ latitude = Series(TimesFrom(0, n), la)
          /\ longitude = Series(TimesFrom(first, m), lo)

InitAnyDtype ==
    /\ op = "none"
    /\ args = << >>
    /\ result = NoResult
    /\ time_dtype \in TimeDtypes
    /\ json_response = << >>
    /\ (CallerSeries \/ MismatchedLocation)

SpikeTestAnyParams ==
    /\ op = "none" /\ data # << >>
    /\ \E spike_half_window \in AnyHalfWindows, std_half_window \in AnyHalfWindows,
          low_multiplier \in AnyMultipliers, high_multiplier \in AnyMultipliers :
        /\ op' = "spike_test"
        /\ args' = [spike_half_window |-> spike_half_window,
                    std_half_window |-> std_half_window,
                    low_multiplier |-> low_multiplier,
                    high_multiplier |-> high_multiplier]
        /\ result' = spike_test(data, spike_half_window, std_half_window,
                                low_multiplier, high_multiplier)
    /\ UNCHANGED <<data, time_dtype, latitude, longitude, json_response>>

FlatLineTestAnyParams ==
    /\ op = "none" /\ data # << >>
    /\ \E max_allowed_std \in AnyAllowedStds, fail_half_window_size \in AnyHalfWindows,
          suspect_half_window_size \in AnyHalfWindows :
        /\ op' = "flat_line_test"
        /\ args' = [max_allowed_std |-> max_allowed_std,
                    fail_half_window_size |-> fail_half_window_size,
                    suspect_half_window_size |-> suspect_half_window_size]
        /\ result' = flat_line_test(data, max_allowed_std, fail_half_window_size,
                                    suspect_half_window_size)
    /\ UNCHANGED <<data, time_dtype, latitude, longitude, json_response>>

RateOfChangeTestAnyParams ==
    /\ op = "none" /\ data # << >>
    /\ \E std_multiplier \in AnyRateMultipliers :
        /\ op' = "rate_of_change_test"
        /\ args' = [std_multiplier |-> std_multiplier]
        /\ result' = rate_of_change_test(data, std_multiplier)
    /\ time_dtype' = AsType(time_dtype, "datetime64[ns]")
    /\ UNCHANGED <<data, latitude, longitude, json_response>>

NextAnyCall ==
    \/ LocationTest
    \/ GrossRangeTest
    \/ SpikeTestAnyParams
    \/ FlatLineTestAnyParams
    \/ RateOfChangeTestAnyParams

SpecAnyCall == InitAnyDtype /\ [][NextAnyCall]_vars

\* the same caller making the rate of change call only
NextAnyRate == RateOfChangeTestAnyParams

SpecAnyRate == InitAnyDtype /\ [][NextAnyRate]_vars

(***************************************************************************)
(* Segmentation of a cable-length series: the samples are in time order,   *)
(* consecutive timestamps a gap of Gaps apart.                             *)
(***************************************************************************)
\* the timestamps 0, g[1], g[1] + g[2], ...
CumulativeTimes(g) ==
    [i \in 1..(Len(g) + 1) |-> SumOver([j \in 1..(i - 1) |-> g[j]], 1..(i - 1))]

InitCable ==
    /\ op = "none"
    /\ args = << >>
    /\ result = NoResult
    /\ time_dtype = "datetime64[ns]"
    /\ json_response = << >>
    /\ latitude = << >>
    /\ longitude = << >>
    /\ \E n \in 1..MaxCableLen : \E g \in [1..(n - 1) -> Gaps] :
         \E x \in [1..n -> Samples(CableValues)] :
            data = Series(CumulativeTimes(g), x)

SplitPeriods ==
    /\ op = "none" /\ data # << >>
    /\ \E min_gap \in MinGaps :
        /\ op' = "split_periods"
        /\ args' = [min_gap |-> min_gap]
        /\ result' = split_periods(data, min_gap)
    /\ UNCHANGED <<data, time_dtype, latitude, longitude, json_response>>

IdentifyProfiles ==
    /\ op = "none" /\ data # << >>
    /\ \E profile_direction \in ProfileDirections, buffer \in Buffers,
          max_allowed_std \in ProfileStds, min_gap \in MinGaps :
        /\ op' = "identify_profiles"
        /\ args' = [profile_direction |-> profile_direction,
                    buffer |-> buffer,
                    max_allowed_std |-> max_allowed_std,
                    min_gap |-> min_gap]
        /\ result' = identify_profiles(data, profile_direction, buffer,
                                       max_allowed_std, min_gap)
    /\ UNCHANGED <<data, time_dtype, latitude, longitude, json_response>>

IdentifyStops ==
    /\ op = "none" /\ data # << >>
    /\ \E buffer \in Buffers, max_allowed_std \in StopStds :
        /\ op' = "identify_stops"
        /\ args' = [buffer |-> buffer, max_allowed_std |-> max_allowed_std]
        /\ result' = identify_stops(data, buffer, max_allowed_std)
    /\ UNCHANGED <<data, time_dtype, latitude, longitude, json_response>>

NextPeriods ==
    \/ SplitPeriods
    \/ IdentifyProfiles
    \/ IdentifyStops

SpecPeriods == InitCable /\ [][NextPeriods]_vars

(***************************************************************************)
(* A caller of flat_line_test whose series holds decimal values: 0.0, 0.1   *)
(* and 0.2, or missing.                                                     *)
(***************************************************************************)
TenthValues == {0, 1, 2}
TenthSamples == {NaN} \cup {Tenth(n) : n \in TenthValues}

InitDecimal ==
    /\ op = "none"
    /\ args = << >>
    /\ result = NoResult
    /\ time_dtype = "datetime64[ns]"
    /\ json_response = << >>
    /\ latitude = << >>
    /\ longitude = << >>
    /\ \E n \in 1..MaxLen : \E t \in TimeOrders(n) :
         \E x \in [1..n -> TenthSamples] : data = Series(t, x)

NextDecimal == FlatLineTest

SpecDecimal == InitDecimal /\ [][NextDecimal]_vars

(***************************************************************************)
(* A caller of get_deployments: the service replied with up to             *)
(* MaxDeployments deployments, each closed with begin <= end or still open. *)
(***************************************************************************)
MaxDeployments == 2
DeviceCategories == {"CTD", "ADCP"}
DeviceCodes == {"dev1", "dev2"}
DeployTimes == 0..(UtcNow - 1)
RequestTimes == 0..UtcNow

Deployments ==
    {dep \in [deviceCategoryCode : DeviceCategories, deviceCode : DeviceCodes,
              begin : DeployTimes, end : {None} \cup {Num(e) : e \in DeployTimes}] :
        dep.end = None \/ dep.begin <= dep.end[1]}

InitDeployments ==
    /\ op = "none"
    /\ args = << >>
    /\ result = NoResult
    /\ time_dtype = "datetime64[ns]"
    /\ data = << >>
    /\ latitude = << >>
    /\ longitude = << >>
    /\ \E n \in 1..MaxDeployments : json_response \in [1..n -> Deployments]

GetDeployments ==
    /\ op = "none" /\ json_response # << >>
    /\ \E begin_datetime \in RequestTimes, end_datetime \in RequestTimes :
        /\ op' = "get_deployments"
        /\ args' = [begin_datetime |-> begin_datetime, end_datetime |-> end_datetime]
        /\ result' = get_deployments(json_response, begin_datetime, end_datetime)
    /\ UNCHANGED <<data, time_dtype, latitude, longitude, json_response>>

NextDeployments == GetDeployments

SpecDeployments == InitDeployments /\ [][NextDeployments]_vars

(***************************************************************************)
(* Properties.                                                             *)
(***************************************************************************)
\* the flag returned for the i-th sample of the returned series
FlagAt(i) == result.series[i].flag

Present(series, i) == ~IsNaN(series[i].value)

GrossCalled == op = "gross_range_test"

\* C1: gross_range_test without operator bounds and with sensor_min <= sensor_max
\* flags every non-missing value PASS when sensor_min <= v <= sensor_max and
\* FAIL otherwise.
C1_GrossRangeBaseline ==
    (/\ GrossCalled
     /\ args.operator_min = None /\ args.operator_max = None
     /\ args.sensor_min <= args.sensor_max)
    => \A i \in DOMAIN data :
          Present(data, i) =>
             FlagAt(i) = IF /\ args.sensor_min <= data[i].value[1]
                            /\ data[i].value[1] <= args.sensor_max
                         THEN PASS ELSE FAIL

\* the operator bound is supplied and differs from the sensor bound
OperatorMinActive == args.operator_min # None /\ args.operator_min # Num(args.sensor_min)
OperatorMaxActive == args.operator_max # None /\ args.operator_max # Num(args.sensor_max)

\* v lies inside the sensor range and outside the tighter operator range
InSuspectBand(v) ==
    \/ /\ OperatorMinActive
       /\ args.sensor_min <= v /\ v < args.operator_min[1]
    \/ /\ OperatorMaxActive
       /\ args.operator_max[1] < v /\ v <= args.sensor_max

\* C2: with an operator bound that differs from the sensor bound, a non-missing
\* value is SUSPECT exactly when it is inside the sensor range and outside the
\* operator range; inside the operator range (the operator bound included) it
\* is PASS, outside the sensor range it is FAIL.
C2_GrossRangeSuspect ==
    (/\ GrossCalled
     /\ OperatorMinActive \/ OperatorMaxActive
     /\ args.sensor_min <= args.sensor_max)
    => \A i \in DOMAIN data :
          Present(data, i) =>
             LET v == data[i].value[1]
             IN  FlagAt(i) = IF v < args.sensor_min \/ v > args.sensor_max THEN FAIL
                             ELSE IF InSuspectBand(v) THEN SUSPECT
                             ELSE PASS

\* C3: gross_range_test flags a sample MISSING_DATA if and only if its value
\* is missing, whatever the sensor and operator bounds are.
C3_GrossRangeMissingIff ==
    GrossCalled =>
       /\ ~result.raised
       /\ \A i \in DOMAIN data : (FlagAt(i) = MISSING_DATA) <=> ~Present(data, i)

\* C3 witness: a call with both operator bounds active on a series holding a
\* missing sample (flagged MISSING_DATA) and a present one (flagged otherwise).
C3_Witness ==
    /\ GrossCalled
    /\ OperatorMinActive /\ OperatorMaxActive
    /\ \E i, j \in DOMAIN data :
          /\ ~Present(data, i) /\ FlagAt(i) = MISSING_DATA
          /\ Present(data, j) /\ FlagAt(j) = SUSPECT

LocationCalled == op = "location_test" /\ ~result.raised

\* C4: location_test, for a sample with latitude and longitude present: FAIL
\* if |latitude| >= 90 or |longitude| >= 180, PASS otherwise.
C4_LocationBounds ==
    LocationCalled =>
       \A i \in DOMAIN latitude :
          (Present(latitude, i) /\ Present(longitude, i)) =>
             FlagAt(i) = IF \/ Abs(latitude[i].value[1]) >= 90
                            \/ Abs(longitude[i].value[1]) >= 180
                         THEN FAIL ELSE PASS

\* C5: location_test flags a sample MISSING_DATA whenever its latitude or its
\* longitude is missing.
C5_LocationMissing ==
    LocationCalled =>
       \A i \in DOMAIN latitude :
          (~Present(latitude, i) \/ ~Present(longitude, i)) => FlagAt(i) = MISSING_DATA

SpikeCalled == op = "spike_test" /\ ~result.raised

\* the series spike_test works on, its reference values and local stds
SpikeSorted == SortByTime(data)
SpikeDev == AbsDev(ValuesOf(SpikeSorted),
                   SpikeRef(ValuesOf(SpikeSorted), args.spike_half_window))
SpikeSd == SpikeStd(ValuesOf(SpikeSorted), args.std_half_window)

\* value, reference and thresholds of sample i are all defined, for the
\* deviations dev and the local stds sd of the call
SpikeDefined(dev, sd, i) == ~IsNaN(dev[i]) /\ ~IsNaN(sd[i])

\* d = |value - reference| against a threshold multiplier * local_std, on
\* squares (the multipliers of the model are >= 0): with the deviation D/2 and
\* the std sqrt(V)/n, d < multiplier*std iff D^2 n^2 < 4 multiplier^2 V
DevSq(dev, sd, i) == dev[i][1] * dev[i][1] * sd[i][2] * sd[i][2]
ThrSq(multiplier, sd, i) == 4 * multiplier * multiplier * sd[i][1]

\* C6 as stated: for a sample with value, reference and thresholds defined,
\* PASS iff d < threshold_low, HIGH_INTEREST iff threshold_low <= d <=
\* threshold_high, FAIL iff d > threshold_high.
C6_SpikeClassesAsStated ==
    SpikeCalled =>
       LET dev == Array(SpikeDev)
           sd  == Array(SpikeSd)
       IN  \A i \in DOMAIN data :
              SpikeDefined(dev, sd, i) =>
                 LET d  == DevSq(dev, sd, i)
                     lo == ThrSq(args.low_multiplier, sd, i)
                     hi == ThrSq(args.high_multiplier, sd, i)
                 IN  /\ (FlagAt(i) = PASS) <=> (d < lo)
                     /\ (FlagAt(i) = HIGH_INTEREST) <=> (lo <= d /\ d <= hi)
                     /\ (FlagAt(i) = FAIL) <=> (d > hi)

\* C6 amended: for a sample with value, reference and thresholds defined,
\* FAIL iff d > threshold_high, HIGH_INTEREST iff threshold_low <= d <=
\* threshold_high, and PASS iff d < threshold_low and d <= threshold_high
\* (the FAIL rule is applied after the PASS rule and overrides it).
C6_SpikeClasses ==
    SpikeCalled =>
       LET dev == Array(SpikeDev)
           sd  == Array(SpikeSd)
       IN  \A i \in DOMAIN data :
              SpikeDefined(dev, sd, i) =>
                 LET d  == DevSq(dev, sd, i)
                     lo == ThrSq(args.low_multiplier, sd, i)
                     hi == ThrSq(args.high_multiplier, sd, i)
                 IN  /\ (FlagAt(i) = PASS) <=> (d < lo /\ d <= hi)
                     /\ (FlagAt(i) = HIGH_INTEREST) <=> (lo <= d /\ d <= hi)
                     /\ (FlagAt(i) = FAIL) <=> (d > hi)

\* C6 witness: a sample whose deviation equals a non-zero threshold_low exactly
\* and is flagged HIGH_INTEREST.
C6_Witness ==
    /\ SpikeCalled
    /\ LET dev == Array(SpikeDev)
           sd  == Array(SpikeSd)
       IN  \E i \in DOMAIN data :
              /\ SpikeDefined(dev, sd, i)
              /\ sd[i][1] > 0
              /\ DevSq(dev, sd, i) = ThrSq(args.low_multiplier, sd, i)
              /\ FlagAt(i) = HIGH_INTEREST

\* C7: spike_test flags every sample whose value is missing MISSING_DATA, and
\* gives NOT_EVALUATED only to samples whose value is present and whose local
\* variability is undefined.
C7_SpikeMissing ==
    SpikeCalled =>
       \A i \in DOMAIN SpikeSorted :
          /\ ~Present(SpikeSorted, i) => FlagAt(i) = MISSING_DATA
          /\ FlagAt(i) = NOT_EVALUATED => (Present(SpikeSorted, i) /\ IsNaN(SpikeSd[i]))

RateCalled == op = "rate_of_change_test" /\ ~result.raised

\* the rate series of the call and the positions where it is defined
RateSeries == RateConcat(RateDiff(data))
RateDefined == {i \in DOMAIN RateSeries : ~IsNaN(RateSeries[i])}

\* the global standard deviation of the rate series (over its defined entries)
RateGlobalStd == StdAt(RateSeries, RateDefined)

\* C8: rate_of_change_test, for a sample whose value and rate are defined:
\* PASS when |rate| > std_multiplier * (global std of the rate series),
\* HIGH_INTEREST otherwise.
C8_RateClasses ==
    RateCalled =>
       \A i \in DOMAIN data :
          (Present(data, i) /\ i \in RateDefined) =>
             FlagAt(i) = IF RateGt(RateSeries[i], args.std_multiplier, RateGlobalStd)
                         THEN PASS ELSE HIGH_INTEREST

\* C9: rate_of_change_test flags MISSING_DATA exactly the first sample, the
\* samples that are missing and the samples whose predecessor is missing,
\* whatever std_multiplier is.
C9_RateMissingIff ==
    op = "rate_of_change_test" =>
       /\ ~result.raised
       /\ \A i \in DOMAIN data :
             (FlagAt(i) = MISSING_DATA)
                <=> (i = 1 \/ ~Present(data, i) \/ ~Present(data, i - 1))

\* C9 witness: a series that starts with a missing sample followed by two
\* present ones: the first two flags are MISSING_DATA, the third is not.
C9_Witness ==
    /\ RateCalled
    /\ Len(data) >= 3
    /\ ~Present(data, 1) /\ Present(data, 2) /\ Present(data, 3)
    /\ FlagAt(1) = MISSING_DATA /\ FlagAt(2) = MISSING_DATA
    /\ FlagAt(3) # MISSING_DATA

\* the series a call is given (latitude for location_test)
InputSeries == IF op = "location_test" THEN latitude ELSE data

\* C10: the flag series a per-sample test returns has as many entries as the
\* input and carries exactly the input's timestamps, one flag per timestamp.
C10_FlagsAligned ==
    (op # "none" /\ ~result.raised) =>
       /\ Len(result.series) = Len(InputSeries)
       /\ {result.series[i].time : i \in DOMAIN result.series}
             = {InputSeries[i].time : i \in DOMAIN InputSeries}
       /\ \A i, j \in DOMAIN result.series :
             i # j => result.series[i].time # result.series[j].time

\* C10 witness: spike_test returned on a series of three samples passed out of
\* time order with a missing value among them.
C10_Witness ==
    /\ SpikeCalled
    /\ Len(data) >= 3
    /\ data[1].time > data[2].time
    /\ \E i \in DOMAIN data : ~Present(data, i)
    /\ Len(result.series) = Len(data)

\* the flag a returned flag series carries at timestamp t
FlagAtTime(series, t) ==
    (series[CHOOSE j \in DOMAIN series : series[j].time = t]).flag

\* the same call made on the caller's series sorted by time
WindowTestOnSorted ==
    IF op = "flat_line_test"
    THEN flat_line_test(SortByTime(data), args.max_allowed_std,
                        args.fail_half_window_size, args.suspect_half_window_size)
    ELSE rate_of_change_test(SortByTime(data), args.std_multiplier)

\* C11: flat_line_test and rate_of_change_test give each timestamp the same
\* flag whether the caller passes the series sorted by time or in a permuted
\* order.
C11_OrderIndependent ==
    (op \in {"flat_line_test", "rate_of_change_test"} /\ ~result.raised) =>
       \A i \in DOMAIN data :
          FlagAtTime(result.series, data[i].time)
             = FlagAtTime(WindowTestOnSorted.series, data[i].time)

\* C12: no test modifies the series object the caller passed in: across every
\* call the caller's samples (values and time coordinate) and the dtype of
\* the time coordinate are what they were before the call.
C12_CallerSeriesUnchanged ==
    [][op' # "none" =>
          /\ data' = data
          /\ latitude' = latitude
          /\ longitude' = longitude
          /\ time_dtype' = time_dtype]_vars

\* a call made with a negative half window, or with a multiplier or a
\* max_allowed_std that is not finite
InvalidParams ==
    \/ /\ op = "spike_test"
       /\ \/ args.spike_half_window < 0 \/ args.std_half_window < 0
          \/ IsInf(args.low_multiplier) \/ IsInf(args.high_multiplier)
    \/ /\ op = "flat_line_test"
       /\ \/ args.fail_half_window_size < 0 \/ args.suspect_half_window_size < 0
          \/ IsInf(args.max_allowed_std)
    \/ /\ op = "rate_of_change_test"
       /\ IsInf(args.std_multiplier)

\* C20: spike_test, flat_line_test and rate_of_change_test reject with an
\* error a negative half-window size and a non-finite multiplier or
\* max_allowed_std: no such call returns a flag series.
C20_InvalidParamsRejected == InvalidParams => result.raised

(***************************************************************************)
(* Properties of the segmentation.                                         *)
(***************************************************************************)
SplitCalled == op = "split_periods"
SplitReturned == SplitCalled /\ ~result.raised

\* the caller's timestamps in time order
SortedTimes == TimesOf(SortByTime(data))

\* position i opens (closes) a run of timestamps at most min_gap apart
RunBegins(t, min_gap, i) == i = 1 \/ t[i] - t[i - 1] > min_gap
RunEnds(t, min_gap, i) == i = Len(t) \/ t[i + 1] - t[i] > min_gap

\* the maximal runs of t, in time order, as periods
MaximalRuns(t, min_gap) ==
    LET begins == SelectSeq([i \in DOMAIN t |-> i], LAMBDA i : RunBegins(t, min_gap, i))
    IN  [k \in DOMAIN begins |->
            [begin_datetime |-> t[begins[k]],
             end_datetime |->
                t[MinOf({e \in begins[k]..Len(t) : RunEnds(t, min_gap, e)})]]]

\* C13: the periods split_periods returns are exactly the maximal runs of the
\* sorted timestamps in which consecutive timestamps are at most min_gap
\* apart, for every min_gap >= 0, min_gap < 30 s included: one period per
\* run, from the run's first timestamp to its last.
C13_MaximalRuns ==
    SplitReturned => result.periods = MaximalRuns(SortedTimes, args.min_gap)

NoGapExceeds(t, min_gap) == \A i \in 2..Len(t) : t[i] - t[i - 1] <= min_gap

\* C14: split_periods returns exactly one period, from the minimum to the
\* maximum input timestamp, when no consecutive difference exceeds min_gap
\* (a single sample included), and returns a single period only then.
C14_SinglePeriod ==
    SplitCalled =>
       /\ NoGapExceeds(SortedTimes, args.min_gap) =>
             /\ ~result.raised
             /\ result.periods = <<[begin_datetime |-> SortedTimes[1],
                                    end_datetime |-> SortedTimes[Len(SortedTimes)]]>>
       /\ (~result.raised /\ Len(result.periods) = 1) =>
             NoGapExceeds(SortedTimes, args.min_gap)

\* C15: the list split_periods returns is ordered and pairwise disjoint: each
\* period has begin <= end, holds at least one input timestamp, and ends
\* strictly before the next period begins.
C15_PeriodsDisjoint ==
    SplitReturned =>
       \A j \in DOMAIN result.periods :
          /\ result.periods[j].begin_datetime <= result.periods[j].end_datetime
          /\ \E i \in DOMAIN data :
                /\ data[i].time >= result.periods[j].begin_datetime
                /\ data[i].time <= result.periods[j].end_datetime
          /\ j < Len(result.periods) =>
                result.periods[j].end_datetime < result.periods[j + 1].begin_datetime

\* C15 witness: split_periods returned three periods, one of them longer
\* than a single sample.
C15_Witness ==
    /\ SplitReturned
    /\ Len(result.periods) >= 3
    /\ \E j \in DOMAIN result.periods :
          result.periods[j].begin_datetime < result.periods[j].end_datetime

ProfilesReturned == op = "identify_profiles" /\ ~result.raised
StopsReturned == op = "identify_stops" /\ ~result.raised

\* the interval of a returned period before the buffer was applied
UnbufferedBegin(period) == period.begin_datetime + args.buffer
UnbufferedEnd(period) == period.end_datetime - args.buffer

\* C16: identify_profiles labels a period by the cable length at its first
\* timestamp against the cable length at its last timestamp, both taken
\* inside the unbuffered period: 'down' if first > last, 'up' if the value
\* increased or is equal.
C16_Direction ==
    ProfilesReturned =>
       \A j \in DOMAIN result.periods :
          LET first == AtTime(data, UnbufferedBegin(result.periods[j]))
              last  == AtTime(data, UnbufferedEnd(result.periods[j]))
          IN  (~IsNaN(first) /\ ~IsNaN(last)) =>
                 /\ first[1] > last[1] => result.periods[j].direction = "down"
                 /\ first[1] <= last[1] => result.periods[j].direction = "up"

\* C16 witness: identify_profiles returned a 'down' period whose cable length
\* decreased and an 'up' period whose first and last cable lengths are equal.
C16_Witness ==
    /\ ProfilesReturned
    /\ \E j, k \in DOMAIN result.periods :
          /\ result.periods[j].direction = "down"
          /\ ~IsNaN(AtTime(data, UnbufferedEnd(result.periods[j])))
          /\ Gt(AtTime(data, UnbufferedBegin(result.periods[j])),
                AtTime(data, UnbufferedEnd(result.periods[j]))[1])
          /\ result.periods[k].direction = "up"
          /\ ~IsNaN(AtTime(data, UnbufferedBegin(result.periods[k])))
          /\ AtTime(data, UnbufferedBegin(result.periods[k]))
                = AtTime(data, UnbufferedEnd(result.periods[k]))

\* the periods split_periods gives for the state samples of the call
Segmentation ==
    LET flag_cl == flat_line_test(data, args.max_allowed_std,
                                  DefaultFailHalfWindow, DefaultSuspectHalfWindow)
    IN  IF op = "identify_profiles"
        THEN split_periods(ProfilingState(Array(flag_cl.series)), args.min_gap).periods
        ELSE split_periods(StopState(Array(flag_cl.series)), StopMinGap).periods

\* the label a returned period carries, and the label computed on the
\* interval [begin, end] of the cable-length series
LabelOf(period) ==
    IF op = "identify_profiles" THEN <<period.direction>>
    ELSE <<period.cable_length_out>>

LabelOn(begin, end) ==
    IF op = "identify_profiles"
    THEN LET first == AtTime(data, begin)
             last  == AtTime(data, end)
         IN  <<IF ~IsNaN(first) /\ ~IsNaN(last) /\ first[1] > last[1]
               THEN "down" ELSE "up">>
    ELSE <<CeilOf(Median(SelTime(data, begin, end)))>>

\* C17: identify_profiles and identify_stops expand each period once and
\* symmetrically: a returned period begins buffer before and ends buffer
\* after a period of the segmentation, and its label is the one computed on
\* that period before the expansion.
C17_ExpandedOnce ==
    (ProfilesReturned \/ StopsReturned) =>
       LET segments == Segmentation
       IN  /\ \A j \in DOMAIN result.periods :
                 \E k \in DOMAIN segments :
                    /\ result.periods[j].begin_datetime
                          = segments[k].begin_datetime - args.buffer
                    /\ result.periods[j].end_datetime
                          = segments[k].end_datetime + args.buffer
                    /\ LabelOf(result.periods[j])
                          = LabelOn(segments[k].begin_datetime,
                                    segments[k].end_datetime)
           /\ (StopsReturned \/ args.profile_direction = "all") =>
                 Len(result.periods) = Len(segments)

\* C17 witness: identify_stops returned two stops or more with a buffer > 0.
C17_Witness ==
    /\ StopsReturned
    /\ args.buffer > 0
    /\ Len(result.periods) >= 2

\* each returned period ends strictly before the next one begins
ExpandedDisjoint ==
    \A j \in 1..(Len(result.periods) - 1) :
       /\ result.periods[j].begin_datetime < result.periods[j + 1].begin_datetime
       /\ result.periods[j].end_datetime < result.periods[j + 1].begin_datetime

\* C18 as stated: the periods identify_profiles and identify_stops return,
\* after the buffer expansion, are ordered by begin time and pairwise
\* disjoint, for every buffer >= 0 and every min_gap.
C18_ExpandedDisjointAsStated ==
    (ProfilesReturned \/ StopsReturned) => ExpandedDisjoint

\* the min_gap the call segments with
MinGapUsed == IF op = "identify_profiles" THEN args.min_gap ELSE StopMinGap

\* C18: the periods identify_profiles and identify_stops return, after the
\* buffer expansion, are ordered by begin time and pairwise disjoint whenever
\* twice the buffer is at most the min_gap of the segmentation.
C18_ExpandedDisjoint ==
    ((ProfilesReturned \/ StopsReturned) /\ 2 * args.buffer <= MinGapUsed) =>
       ExpandedDisjoint

\* C18 witness: identify_profiles returned two periods or more, expanded by a
\* buffer > 0 of at most half the min_gap.
C18_Witness ==
    /\ ProfilesReturned
    /\ args.buffer > 0 /\ 2 * args.buffer <= args.min_gap
    /\ Len(result.periods) >= 2

\* C19: every stop identify_stops returns carries cable_length_out, the
\* ceiling of the median of the cable-length values present in the stop's
\* unbuffered interval.
C19_CableLengthOut ==
    StopsReturned =>
       \A j \in DOMAIN result.periods :
          LET inside == {i \in DOMAIN data :
                            /\ data[i].time >= UnbufferedBegin(result.periods[j])
                            /\ data[i].time <= UnbufferedEnd(result.periods[j])
                            /\ Present(data, i)}
              n      == Cardinality(inside)
              below(x)  == Cardinality({i \in inside : data[i].value[1] < x})
              upto(x)   == Cardinality({i \in inside : data[i].value[1] <= x})
              out    == result.periods[j].cable_length_out
          IN  /\ "cable_length_out" \in DOMAIN result.periods[j]
              /\ n > 0
              \* lo and hi are the two middle values (the same one when n is odd)
              /\ \E lo, hi \in {data[i].value[1] : i \in inside} :
                    /\ 2 * below(lo) < n /\ 2 * upto(lo) >= n
                    /\ 2 * below(hi) <= n /\ 2 * upto(hi) > n
                    /\ 2 * (out - 1) < lo + hi /\ lo + hi <= 2 * out

\* C19 witness: a stop whose interval holds as many values 0 as values 1 (the
\* median is 0.5) is returned with cable_length_out = 1.
C19_Witness ==
    /\ StopsReturned
    /\ \E j \in DOMAIN result.periods :
          LET inside == {i \in DOMAIN data :
                            /\ data[i].time >= UnbufferedBegin(result.periods[j])
                            /\ data[i].time <= UnbufferedEnd(result.periods[j])}
          IN  /\ Cardinality({i \in inside : data[i].value = Num(0)})
                    = Cardinality({i \in inside : data[i].value = Num(1)})
              /\ \E i \in inside : data[i].value = Num(0)
              /\ result.periods[j].cable_length_out = 1

(***************************************************************************)
(* Properties of the tests at the edges of their inputs.                   *)
(***************************************************************************)
\* latitude and longitude differ in length or in timestamps
LocationMismatched ==
    \/ Len(latitude) # Len(longitude)
    \/ \E i \in DOMAIN latitude : latitude[i].time # longitude[i].time

\* C21: location_test fails with an error on latitude and longitude series of
\* different length or with different timestamps; it never returns flags for
\* such a pair.
C21_LocationMismatchRejected ==
    (op = "location_test" /\ LocationMismatched) => result.raised

\* every value the call is given is missing (both coordinates for location_test)
AllMissing ==
    /\ Len(InputSeries) > 0
    /\ \A i \in DOMAIN InputSeries : ~Present(InputSeries, i)
    /\ op = "location_test" => \A i \in DOMAIN longitude : ~Present(longitude, i)

\* C22: each per-sample test, given a series whose every value is missing,
\* returns without raising a flag series of the same length in which every
\* flag is MISSING_DATA.
C22_AllMissingFlagged ==
    (op # "none" /\ AllMissing) =>
       /\ ~result.raised
       /\ Len(result.series) = Len(InputSeries)
       /\ \A i \in DOMAIN result.series : FlagAt(i) = MISSING_DATA

FlatCalled == op = "flat_line_test" /\ ~result.raised

\* the fail window of sample i is fully populated with one identical value:
\* the 2 * fail_half_window_size + 1 samples ending at i exist, are present
\* and equal
FailWindowConstant(i) ==
    LET w == 2 * args.fail_half_window_size + 1
    IN  /\ i >= w
        /\ \A j \in (i - w + 1)..i : Present(data, j) /\ data[j].value = data[i].value

\* C23: flat_line_test with max_allowed_std >= 0 flags FAIL every sample whose
\* fail window is fully populated with one identical value.
C23_ConstantWindowFails ==
    (FlatCalled /\ args.max_allowed_std >= 0) =>
       \A i \in DOMAIN data : FailWindowConstant(i) => FlagAt(i) = FAIL


\* the reference of sample i taken from a window centred on i: the mean
\* (doubled) of the samples spike_half_window before and after it, undefined
\* when one of the two is absent or missing
CentredRef(v, spike_half_window, i) ==
    LET l == i - spike_half_window
        r == i + spike_half_window
    IN  IF l \in DOMAIN v /\ r \in DOMAIN v /\ ~IsNaN(v[l]) /\ ~IsNaN(v[r])
        THEN Num(v[l][1] + v[r][1])
        ELSE NaN

\* C24: the reference value spike_test computes for the sample at sorted
\* position i is the mean of the samples at positions i - spike_half_window
\* and i + spike_half_window, undefined only when one of the two is absent or
\* missing.
C24_SpikeRefCentred ==
    SpikeCalled =>
       LET v   == Array(ValuesOf(SpikeSorted))
           ref == Array(SpikeRef(v, args.spike_half_window))
       IN  \A i \in DOMAIN v : ref[i] = CentredRef(v, args.spike_half_window, i)

\* the stds of the fail and suspect windows of the call
FlatFailStd == FlatLineStd(ValuesOf(data), args.fail_half_window_size)
FlatSuspectStd == FlatLineStd(ValuesOf(data), args.suspect_half_window_size)

\* C25: flat_line_test flags a sample FAIL iff its fail-window std is
\* <= max_allowed_std; otherwise SUSPECT iff its suspect-window std is
\* <= max_allowed_std; otherwise PASS.  When both hold the flag is FAIL, and
\* no sample is left NOT_EVALUATED.
C25_FlatLineOrder ==
    FlatCalled =>
       LET wfstd == Array(FlatFailStd)
           wsstd == Array(FlatSuspectStd)
       IN  \A i \in DOMAIN data :
              FlagAt(i) = IF StdLe(wfstd[i], args.max_allowed_std) THEN FAIL
                          ELSE IF StdLe(wsstd[i], args.max_allowed_std) THEN SUSPECT
                          ELSE PASS

\* C25 witness: one call in which a sample with both stds within
\* max_allowed_std is FAIL, another is SUSPECT and another is PASS.
C25_Witness ==
    /\ FlatCalled
    /\ LET wfstd == Array(FlatFailStd)
           wsstd == Array(FlatSuspectStd)
       IN  \E i \in DOMAIN data :
              /\ StdLe(wfstd[i], args.max_allowed_std)
              /\ StdLe(wsstd[i], args.max_allowed_std)
              /\ FlagAt(i) = FAIL
    /\ \E j \in DOMAIN data : FlagAt(j) = SUSPECT
    /\ \E k \in DOMAIN data : FlagAt(k) = PASS

\* the flag flat_line_test gives sample i when called on the first i samples
\* only
FlagOnPrefix(i) ==
    LET prefix == flat_line_test(SubSeq(data, 1, i), args.max_allowed_std,
                                 args.fail_half_window_size,
                                 args.suspect_half_window_size)
    IN  prefix.series[i].flag

\* C28: flat_line_test uses trailing windows that shrink at the start: whenever
\* the first value is present and max_allowed_std >= 0 the first sample is
\* flagged FAIL whatever follows, and the flag of sample i never depends on the
\* samples after i.
C28_TrailingWindows ==
    FlatCalled =>
       /\ (Present(data, 1) /\ args.max_allowed_std >= 0) => FlagAt(1) = FAIL
       /\ \A i \in DOMAIN data : FlagAt(i) = FlagOnPrefix(i)

\* C28 witness: windows of three samples, a present first sample followed by a
\* different value: the first sample is FAIL and the second is not
C28_Witness ==
    /\ FlatCalled
    /\ args.max_allowed_std = 0
    /\ args.fail_half_window_size = 1 /\ args.suspect_half_window_size = 1
    /\ Len(data) >= 2
    /\ Present(data, 1) /\ Present(data, 2) /\ data[1].value # data[2].value
    /\ FlagAt(1) = FAIL /\ FlagAt(2) = PASS

\* C29: rate_of_change_test returns only PASS and MISSING_DATA: every sample
\* with a defined value and a defined rate is PASS, for every std_multiplier
\* and every input; HIGH_INTEREST, SUSPECT, FAIL and NOT_EVALUATED never
\* appear.
C29_RateOnlyPassOrMissing ==
    RateCalled =>
       LET rate == Array(RateSeries)
       IN  \A i \in DOMAIN data :
              /\ FlagAt(i) \in {PASS, MISSING_DATA}
              /\ (Present(data, i) /\ ~IsNaN(rate[i])) => FlagAt(i) = PASS

\* C29 witness: three present samples with two different rates of change and
\* std_multiplier = 0: the second and third samples are PASS.
C29_Witness ==
    /\ RateCalled
    /\ args.std_multiplier = 0
    /\ Len(data) >= 3
    /\ \A i \in 1..3 : Present(data, i)
    /\ data[2].value # data[1].value /\ data[3].value = data[2].value
    /\ FlagAt(1) = MISSING_DATA /\ FlagAt(2) = PASS /\ FlagAt(3) = PASS

\* timestamp b follows a gap of more than min_gap in t
BreakPoint(t, min_gap, b) ==
    \E i \in 2..Len(t) : t[i] = b /\ t[i] - t[i - 1] > min_gap

\* C26: in the list split_periods returns, the first period begins at the
\* series minimum and each later period at a break-point timestamp; every
\* period but the last ends exactly 30 seconds before the next period's
\* begin, and the last period ends at the series maximum.
C26_PeriodBounds ==
    SplitReturned =>
       LET p == result.periods
           t == SortedTimes
       IN  /\ p[1].begin_datetime = t[1]
           /\ \A k \in 2..Len(p) : BreakPoint(t, args.min_gap, p[k].begin_datetime)
           /\ \A k \in 1..(Len(p) - 1) :
                 p[k].end_datetime = p[k + 1].begin_datetime - 30
           /\ p[Len(p)].end_datetime = t[Len(t)]

(***************************************************************************)
(* Properties of the samples identify_profiles segments.                   *)
(***************************************************************************)
\* the flat-line flags of the cable-length series of the call
CableFlags ==
    flat_line_test(data, args.max_allowed_std,
                   DefaultFailHalfWindow, DefaultSuspectHalfWindow).series

\* C27 as stated: identify_profiles segments the samples whose flat-line flag
\* is not PASS, so no profile begins or ends (before the buffer) at a
\* timestamp flagged PASS.
C27_ProfilesFromNonPass ==
    ProfilesReturned =>
       LET flag_cl == Array(CableFlags)
       IN  \A j \in DOMAIN result.periods :
              /\ FlagAtTime(flag_cl, UnbufferedBegin(result.periods[j])) # PASS
              /\ FlagAtTime(flag_cl, UnbufferedEnd(result.periods[j])) # PASS

\* C27: identify_profiles segments the samples whose flat-line flag is PASS:
\* every profile begins and ends (before the buffer) at a timestamp of the
\* cable-length series flagged PASS, never at one flagged otherwise.
C27_ProfilesFromPass ==
    ProfilesReturned =>
       LET flag_cl == Array(CableFlags)
       IN  \A j \in DOMAIN result.periods :
              /\ \E i \in DOMAIN data : data[i].time = UnbufferedBegin(result.periods[j])
              /\ \E i \in DOMAIN data : data[i].time = UnbufferedEnd(result.periods[j])
              /\ FlagAtTime(flag_cl, UnbufferedBegin(result.periods[j])) = PASS
              /\ FlagAtTime(flag_cl, UnbufferedEnd(result.periods[j])) = PASS

\* C27 witness: the cable-length series holds a sample flagged FAIL and
\* samples flagged PASS, and identify_profiles returned two profiles, one of
\* them spanning more than one timestamp.
C27_Witness ==
    /\ ProfilesReturned
    /\ args.profile_direction = "all"
    /\ Len(result.periods) >= 2
    /\ \E j \in DOMAIN result.periods :
          UnbufferedBegin(result.periods[j]) < UnbufferedEnd(result.periods[j])
    /\ \E i \in DOMAIN data : CableFlags[i].flag = FAIL
    /\ \E i \in DOMAIN data : CableFlags[i].flag = PASS

(***************************************************************************)
(* Properties of get_deployments.                                          *)
(***************************************************************************)
DeploymentsCalled == op = "get_deployments" /\ ~result.raised

\* the closed interval of the i-th deployment of the reply, open ones ending
\* now
DeployedFrom(i) == json_response[i].begin
DeployedTo(i) ==
    IF json_response[i].end = None THEN UtcNow ELSE json_response[i].end[1]

\* the closed intervals [a, b] and [c, d] share an instant
Intersect(a, b, c, d) ==
    \E t \in 0..UtcNow : a <= t /\ t <= b /\ c <= t /\ t <= d

\* the label of the i-th deployment of the reply: D and, on five digits, its
\* rank among the deployments of its device category in the order of the reply
LabelInReply(i) ==
    LET rank == 1 + Cardinality({j \in 1..(i - 1) :
                       json_response[j].deviceCategoryCode
                          = json_response[i].deviceCategoryCode})
    IN  [letter |-> "D", digits |-> <<0, 0, 0, 0, rank>>]

\* the i-th deployment of the reply is returned, under its category and label
ReturnedDeployment(i) ==
    LET dcc == json_response[i].deviceCategoryCode
    IN  /\ dcc \in DOMAIN result.deployments
        /\ \E k \in DOMAIN result.deployments[dcc] :
              /\ result.deployments[dcc][k].dnum = LabelInReply(i)
              /\ result.deployments[dcc][k].info
                    = [device_code    |-> json_response[i].deviceCode,
                       begin_datetime |-> DeployedFrom(i),
                       end_datetime   |-> DeployedTo(i)]

\* what is returned are deployments of the reply, once each
OnlyDeploymentsOfReply ==
    \A dcc \in DOMAIN result.deployments :
       LET deps == result.deployments[dcc]
       IN  /\ deps # << >>
           /\ \A k \in DOMAIN deps :
                 \E i \in DOMAIN json_response :
                    /\ json_response[i].deviceCategoryCode = dcc
                    /\ deps[k].dnum = LabelInReply(i)
           /\ \A k, l \in DOMAIN deps : k # l => deps[k].dnum # deps[l].dnum

\* C30 as stated: get_deployments returns a deployment iff its closed interval
\* [begin, end] (end = now when open) intersects the requested closed interval
\* [begin_datetime, end_datetime], under the label D00001, D00002, ... it has
\* per device category in response order.
C30_ReturnedIffIntersectsAsStated ==
    DeploymentsCalled =>
       /\ OnlyDeploymentsOfReply
       /\ \A i \in DOMAIN json_response :
             ReturnedDeployment(i)
                <=> Intersect(DeployedFrom(i), DeployedTo(i),
                              args.begin_datetime, args.end_datetime)

\* C30: for a request with begin_datetime <= end_datetime, get_deployments
\* returns a deployment iff its closed interval [begin, end] (end = now when
\* open) intersects [begin_datetime, end_datetime], under the label D00001,
\* D00002, ... it has per device category in response order; the filter
\* never renumbers.
C30_ReturnedIffIntersects ==
    (DeploymentsCalled /\ args.begin_datetime <= args.end_datetime) =>
       /\ OnlyDeploymentsOfReply
       /\ \A i \in DOMAIN json_response :
             ReturnedDeployment(i)
                <=> Intersect(DeployedFrom(i), DeployedTo(i),
                              args.begin_datetime, args.end_datetime)

\* C30 witness: the reply holds two deployments of one category, the first
\* closed before the request begins and the second still open; only the
\* second is returned, and it is still D00002.
C30_Witness ==
    /\ DeploymentsCalled
    /\ args.begin_datetime <= args.end_datetime
    /\ Len(json_response) >= 2
    /\ json_response[1].deviceCategoryCode = json_response[2].deviceCategoryCode
    /\ json_response[2].end = None
    /\ DeployedTo(1) < args.begin_datetime
    /\ ~ReturnedDeployment(1) /\ ReturnedDeployment(2)
    /\ LET deps == result.deployments[json_response[2].deviceCategoryCode]
       IN  Len(deps) = 1 /\ deps[1].dnum.digits = <<0, 0, 0, 0, 2>>

====
